---- MODULE Spec2Model ----
(***************************************************************************)
(* Tracked-change text replacement of python-docx (docx/text/paragraph.py, *)
(* docx/text/run.py).  A text is a sequence of one-character strings; a    *)
(* paragraph is the ordered sequence of its child nodes (runs, one w:ins,  *)
(* one w:del).  Formatting descriptors (rPr) carry no text and are left    *)
(* out of the state.                                                       *)
(***************************************************************************)
EXTENDS Integers, Sequences, FiniteSets, TLC

\* ------------------------------------------------------------------ bounds
MaxRuns == 3
MaxRunLen == 2
MaxTextLen == 3
MaxQueryRuns == 1

\* Characters of run texts and of the searched text: two letters and the
\* space that str.strip() and str.split(' ') act on.
Alphabet == {"a", "b", " "}

\* Python's None, as an integer below every run id (>= 1) and every index (>= -1).
None == -2

\* the sequences over S of length at most n
RECURSIVE SeqsUpTo(_, _)
SeqsUpTo(S, n) ==
    IF n = 0 THEN {<<>>}
    ELSE LET shorter == SeqsUpTo(S, n - 1)
         IN  shorter \cup {Append(s, c) : s \in shorter, c \in S}

TextsUpTo(n) == SeqsUpTo(Alphabet, n)

\* replacement_text = None (deletion only), kept apart from every text
NoText == <<"None">>

\* The replacement texts tried: None and a text of one new letter.
Replacements == {NoText, <<"c">>}

\* ------------------------------------------------------- Python str methods
\* s[a:b] with Python's clamping and negative indices.
Norm(i, n) == IF i < 0 THEN (IF i + n < 0 THEN 0 ELSE i + n) ELSE (IF i > n THEN n ELSE i)

Slice(s, a, b) ==
    LET lo == Norm(a, Len(s))
        hi == Norm(b, Len(s))
    IN  IF lo >= hi THEN <<>> ELSE SubSeq(s, lo + 1, hi)

SliceFrom(s, a) == Slice(s, a, Len(s))

SliceTo(s, b) == Slice(s, 0, b)

\* s.find(t, i): the first position (0-based) at or after i where t occurs in s, -1 if none
RECURSIVE FindFrom(_, _, _)
FindFrom(s, t, i) ==
    IF i + Len(t) > Len(s) THEN -1
    ELSE IF SubSeq(s, i + 1, i + Len(t)) = t THEN i
    ELSE FindFrom(s, t, i + 1)

\* t in s
Contains(s, t) == FindFrom(s, t, 0) # -1

\* s.index(t), used where t in s
IndexOf(s, t) == FindFrom(s, t, 0)

StartsWith(s, t) == Len(t) <= Len(s) /\ SubSeq(s, 1, Len(t)) = t

EndsWith(s, t) == Len(t) <= Len(s) /\ SubSeq(s, Len(s) - Len(t) + 1, Len(s)) = t

RECURSIVE LStrip(_)
LStrip(s) == IF s # <<>> /\ Head(s) = " " THEN LStrip(Tail(s)) ELSE s

RECURSIVE RStrip(_)
RStrip(s) == IF s # <<>> /\ s[Len(s)] = " " THEN RStrip(SubSeq(s, 1, Len(s) - 1)) ELSE s

\* s.strip()
Strip(s) == RStrip(LStrip(s))

\* s.split(' '): the pieces between single spaces, empty pieces kept
RECURSIVE Split(_)
Split(s) ==
    IF Contains(s, <<" ">>)
    THEN LET k == IndexOf(s, <<" ">>)
         IN  <<SliceTo(s, k)>> \o Split(SliceFrom(s, k + 1))
    ELSE <<s>>

\* ' '.join(parts)
RECURSIVE Join(_)
Join(parts) ==
    IF parts = <<>> THEN <<>>
    ELSE IF Len(parts) = 1 THEN parts[1]
    ELSE parts[1] \o <<" ">> \o Join(Tail(parts))

\* ------------------------------------------------------------ Run (run.py)
\* text_start_index with the leading space subtracted from the offset
RECURSIVE start_shorten_subtracting(_, _, _)
start_shorten_subtracting(run_text, text, subtract_space) ==
    IF text = <<>> THEN None
    ELSE IF EndsWith(Strip(run_text), text)
         THEN Len(Strip(run_text)) - Len(text) - subtract_space
         ELSE start_shorten_subtracting(run_text, SliceTo(text, -1), subtract_space)

\* the while loop of Run.text_start_index: drop the last character until the
\* text is a suffix of the stripped run text
RECURSIVE start_shorten(_, _, _)
start_shorten(run_text, text, subtract_space) ==
    IF text = <<>> THEN None
    ELSE IF EndsWith(Strip(run_text), text)
         THEN Len(Strip(run_text)) - Len(text) + subtract_space
         ELSE start_shorten(run_text, SliceTo(text, -1), subtract_space)

text_start_index(run_text, text) ==
    IF Contains(run_text, text) THEN IndexOf(run_text, text)
    ELSE start_shorten(run_text, text, IF StartsWith(run_text, <<" ">>) THEN 1 ELSE 0)

\* the while loop of Run.text_end_index: drop the first word (re-attaching
\* ", " after a word that ends with a comma) until the text is a prefix of
\* the stripped run text
RECURSIVE end_shorten(_, _)
end_shorten(run_text, text) ==
    IF text = <<>> THEN None
    ELSE IF StartsWith(Strip(run_text), text)
         THEN IndexOf(run_text, text) + Len(text) - 1
         ELSE LET split_text == Split(text)
              IN  IF Len(split_text[1]) > 1 /\ EndsWith(split_text[1], <<",">>)
                  THEN end_shorten(run_text, <<",", " ">> \o Join(Tail(split_text)))
                  ELSE end_shorten(run_text, Join(Tail(split_text)))

text_end_index(run_text, text) ==
    IF Contains(run_text, text) THEN IndexOf(run_text, text) + Len(text)
    ELSE end_shorten(run_text, text)

\* ------------------------------------------------- paragraph child nodes
\* a w:r child with its text
Run(id, text) == [kind |-> "r", id |-> id, text |-> text, runs |-> <<>>]

\* a w:ins / w:del child with the texts of the runs it holds
Ins(held) == [kind |-> "ins", id |-> 0, text |-> <<>>, runs |-> held]

Del(held) == [kind |-> "del", id |-> 0, text |-> <<>>, runs |-> held]

IsRun(n) == n.kind = "r"

\* Paragraph.runs: the direct w:r children, in order
runs(p) == SelectSeq(p, IsRun)

RunIds(p) == [i \in 1..Len(runs(p)) |-> runs(p)[i].id]

\* position of a node among the children
RECURSIVE RunFrom(_, _, _)
RunFrom(p, id, i) == IF p[i].kind = "r" /\ p[i].id = id THEN i ELSE RunFrom(p, id, i + 1)

PosOfRun(p, id) == RunFrom(p, id, 1)

RECURSIVE KindFrom(_, _, _)
KindFrom(p, k, i) ==
    IF i > Len(p) THEN 0 ELSE IF p[i].kind = k THEN i ELSE KindFrom(p, k, i + 1)

PosOfKind(p, k) == KindFrom(p, k, 1)

HasKind(p, k) == KindFrom(p, k, 1) # 0

\* Run.text (getter) and Run.text = t (setter)
TextOf(p, id) == p[PosOfRun(p, id)].text

SetText(p, id, t) == [p EXCEPT ![PosOfRun(p, id)].text = t]

\* lxml addprevious / addnext / append / remove on the children
InsertAt(p, pos, n) == SubSeq(p, 1, pos - 1) \o <<n>> \o SubSeq(p, pos, Len(p))

RemoveAt(p, pos) == SubSeq(p, 1, pos - 1) \o SubSeq(p, pos + 1, Len(p))

RECURSIVE Concat(_)
Concat(ts) == IF ts = <<>> THEN <<>> ELSE Head(ts) \o Concat(Tail(ts))

\* Paragraph.text: the texts of the direct runs, concatenated
text(p) == Concat([i \in 1..Len(runs(p)) |-> runs(p)[i].text])

\* the next run after a run, None after the last one
next(p, id) ==
    LET i == KindFrom(p, "r", PosOfRun(p, id) + 1)
    IN  IF i = 0 THEN None ELSE p[i].id

\* Run.add_track_delete_after / add_track_insert_after
add_track_delete_after(p, id) == InsertAt(p, PosOfRun(p, id) + 1, Del(<<>>))

add_track_insert_after(p, id) == InsertAt(p, PosOfRun(p, id) + 1, Ins(<<>>))

\* Run.add_track_insert_before / add_track_delete_before
add_track_insert_before(p, id) == InsertAt(p, PosOfRun(p, id), Ins(<<>>))

add_track_delete_before(p, id) == InsertAt(p, PosOfRun(p, id), Del(<<>>))

\* Paragraph.add_del_at_start
add_del_at_start(p) == InsertAt(p, 1, Del(<<>>))

\* Del.add_deltext: a new run holding the deleted text, appended to the w:del
add_deltext(p, t) == [p EXCEPT ![PosOfKind(p, "del")].runs = Append(@, t)]

\* Del.add_run_after followed by split_run.text = t
add_run_after(p, id, t) == InsertAt(p, PosOfKind(p, "del") + 1, Run(id, t))

\* Ins.add_run
add_run(p, t) == [p EXCEPT ![PosOfKind(p, "ins")].runs = Append(@, t)]

\* Paragraph.delete_run
delete_run(p, id) == RemoveAt(p, PosOfRun(p, id))

\* -------------------------------------------------- Paragraph (paragraph.py)
\* Paragraph.find_text_start_run: the first run where the text starts
RECURSIVE first_start(_, _)
first_start(rs, t) ==
    IF rs = <<>> THEN <<None, None>>
    ELSE LET k == text_start_index(Head(rs).text, t)
         IN  IF k # None THEN <<Head(rs).id, k>>
             ELSE first_start(Tail(rs), t)

find_text_start_run(p, t) == first_start(runs(p), t)

\* the for loop of find_text_end_run without a start run
RECURSIVE first_end(_, _)
first_end(rs, t) ==
    IF rs = <<>> THEN <<None, None>>
    ELSE LET k == text_end_index(Head(rs).text, t)
         IN  IF k # None THEN <<Head(rs).id, k>>
             ELSE first_end(Tail(rs), t)

\* the while loop of find_text_end_run: walk the runs after the start run
RECURSIVE end_walk(_, _, _)
end_walk(p, current_run, t) ==
    IF next(p, current_run) = None THEN <<None, None>>
    ELSE LET nxt == next(p, current_run)
             nt == TextOf(p, nxt)
         IN  IF nt # <<>> /\ Contains(nt, t) THEN <<nxt, Len(t) - 1>>
             ELSE IF nt # <<>> THEN end_walk(p, nxt, SliceFrom(t, Len(nt)))
             ELSE end_walk(p, nxt, t)

\* does find_text_end_run raise?  str.index raises ValueError when the text
\* is not in the start run
find_text_end_run_raises(p, t, start_run, start_index) ==
    /\ start_run # None
    /\ Len(t) <= Len(TextOf(p, start_run)) - start_index
    /\ ~Contains(TextOf(p, start_run), t)

\* Paragraph.find_text_end_run, where it returns
find_text_end_run(p, t, start_run, start_index) ==
    IF start_run # None
    THEN LET st == TextOf(p, start_run)
         IN  IF Len(t) <= Len(st) - start_index
             THEN <<start_run, IndexOf(st, t) + Len(t)>>
             ELSE end_walk(p, start_run, SliceFrom(t, Len(st) - start_index))
    ELSE first_end(runs(p), t)

\* the while loop of text_starts_in_paragraph: drop the last word until the
\* text ends the paragraph text
RECURSIVE starts_shorten(_, _)
starts_shorten(paragraph_text, t) ==
    IF t = <<>> THEN FALSE
    ELSE IF EndsWith(paragraph_text, t) THEN TRUE
    ELSE starts_shorten(paragraph_text, Join(SubSeq(Split(t), 1, Len(Split(t)) - 1)))

\* Paragraph.text_starts_in_paragraph
text_starts_in_paragraph(p, t) ==
    IF Contains(text(p), t) THEN TRUE ELSE starts_shorten(text(p), t)

\* create_track_change_elements with the w:ins built before the w:del
create_elements_ins_first(p, start_run, end_run, create_ins_element) ==
    IF start_run # None /\ end_run = None
    THEN add_track_delete_after(p, start_run)
    ELSE IF start_run # None /\ end_run # None
    THEN LET i == IF create_ins_element THEN add_track_insert_after(p, start_run) ELSE p
         IN  add_track_delete_after(i, start_run)
    ELSE IF end_run # None
    THEN LET i == IF create_ins_element THEN add_track_insert_before(p, end_run) ELSE p
         IN  add_track_delete_before(i, end_run)
    ELSE add_del_at_start(p)

\* create_track_change_elements with a w:ins also when only the start run is located
create_elements_ins_at_start(p, start_run, end_run, create_ins_element) ==
    IF start_run # None
    THEN LET d == add_track_delete_after(p, start_run)
         IN  IF create_ins_element THEN add_track_insert_after(d, start_run) ELSE d
    ELSE IF end_run # None
    THEN LET i == IF create_ins_element THEN add_track_insert_before(p, end_run) ELSE p
         IN  add_track_delete_before(i, end_run)
    ELSE add_del_at_start(p)

\* Paragraph.create_track_change_elements
create_track_change_elements(p, start_run, end_run, create_ins_element) ==
    IF start_run # None /\ end_run = None
    THEN add_track_delete_after(p, start_run)
    ELSE IF start_run # None /\ end_run # None
    THEN LET d == add_track_delete_after(p, start_run)
         IN  IF create_ins_element THEN add_track_insert_after(d, start_run) ELSE d
    ELSE IF end_run # None
    THEN LET i == IF create_ins_element THEN add_track_insert_before(p, end_run) ELSE p
         IN  add_track_delete_before(i, end_run)
    ELSE add_del_at_start(p)

\* ------------------------------------------------------------------- state
VARIABLES
    children,          \* the paragraph: its child nodes in document order
    original_text,     \* argument of replace_text_track_change
    replacement_text,  \* argument of replace_text_track_change, NoText for None
    pc,                \* position in replace_text_track_change
    start_run, start_index, end_run, end_index,   \* its locals
    replace_start,     \* its local flag
    pending,           \* ids of the runs the for loop has yet to visit
    before,            \* the run texts before the call
    visited,           \* <<run id, branch>> of every loop iteration so far
    result,            \* value returned by a query
    loop_text          \* the local text of a shortening loop in progress

vars == <<children, original_text, replacement_text, pc, start_run, start_index,
          end_run, end_index, replace_start, pending, before, visited, result,
          loop_text>>

\* the loop iterations that removed their run
IsInside(v) == v[2] = "inside"

Paragraphs == SeqsUpTo(TextsUpTo(MaxRunLen), MaxRuns)

Texts == TextsUpTo(MaxTextLen)

\* a paragraph of runs numbered in document order
Build(ts) == [i \in 1..Len(ts) |-> Run(i, ts[i])]

\* id of the next run created: after the runs of the paragraph and the runs created so far
NewId(p) == Len(runs(p)) + 1 + Len(SelectSeq(visited, IsInside))

\* what a query returned: the operation, the run asked about or returned, the offset
Answer(op, run, value) == [op |-> op, run |-> run, value |-> value]

NoResult == Answer("none", None, None)

Init ==
    /\ before \in Paragraphs
    /\ children = Build(before)
    /\ original_text \in Texts
    /\ replacement_text \in Replacements
    /\ pc = "call"
    /\ start_run = None /\ start_index = None
    /\ end_run = None /\ end_index = None
    /\ replace_start = FALSE
    /\ pending = <<>>
    /\ visited = <<>>
    /\ result = NoResult
    /\ loop_text = <<>>

\* lines 176-183: locate the start and the end of original_text (str.index
\* may raise there), build the containers, set replace_start and take the
\* list of runs the loop goes through
Find ==
    /\ pc = "call"
    /\ \E s \in {find_text_start_run(children, original_text)} :
           /\ start_run' = s[1]
           /\ start_index' = s[2]
           /\ IF find_text_end_run_raises(children, original_text, s[1], s[2])
              THEN /\ pc' = "raised"
                   /\ UNCHANGED <<children, end_run, end_index, replace_start, pending>>
              ELSE \E e \in {find_text_end_run(children, original_text, s[1], s[2])} :
                       /\ end_run' = e[1]
                       /\ end_index' = e[2]
                       /\ children' = create_track_change_elements(children, s[1], e[1],
                                           replacement_text # NoText)
                       /\ replace_start' = (s[1] = None)
                       /\ pending' = RunIds(children)
                       /\ pc' = "scan"
    /\ UNCHANGED <<original_text, replacement_text, before, visited, result, loop_text>>

\* the conditions of the loop body, on the current texts of the runs
IsBoth(run) ==
    /\ start_run # None /\ end_run # None
    /\ TextOf(children, run) = TextOf(children, start_run)
    /\ TextOf(children, start_run) = TextOf(children, end_run)

IsStart(run) == start_run # None /\ TextOf(children, run) = TextOf(children, start_run)

IsEnd(run) == replace_start /\ end_run # None /\ TextOf(children, run) = TextOf(children, end_run)

Loop == pc = "scan" /\ pending # <<>>

Frame == UNCHANGED <<original_text, replacement_text, start_run, start_index,
                     end_run, end_index, before, result, loop_text>>

\* lines 185-188: the deleted slice goes to the w:del, the rest after the end
\* to a new run after the w:del, and the run keeps what precedes the start
both_body(p, run, si, ei, new_id) ==
    LET rt == TextOf(p, run)
        deleted == add_deltext(p, Slice(rt, si, ei))
        split == add_run_after(deleted, new_id, SliceFrom(rt, ei))
    IN  SetText(split, run, SliceTo(rt, si))

\* lines 191-192: the tail of the run goes to the w:del
start_body(p, run, si) ==
    LET rt == TextOf(p, run)
        deleted == add_deltext(p, SliceFrom(rt, si))
    IN  SetText(deleted, run, SliceTo(rt, si))

\* lines 194-197: the head of the run goes to the w:del, the rest to a new
\* run after the w:del, and the run is emptied
end_body(p, run, ei, new_id) ==
    LET rt == TextOf(p, run)
        deleted == add_deltext(p, SliceTo(rt, ei + 1))
        split == add_run_after(deleted, new_id, SliceFrom(rt, ei + 1))
    IN  SetText(split, run, <<>>)

\* lines 200-201 without delete_run: the run stays in the paragraph
inside_body_keeping_run(p, run) == add_deltext(p, TextOf(p, run))

\* lines 200-201: the whole run goes to the w:del and leaves the paragraph
inside_body(p, run) == delete_run(add_deltext(p, TextOf(p, run)), run)

\* lines 184-188: the run holds the start and the end
ScanBoth ==
    /\ Loop
    /\ \E run \in {Head(pending)} :
           /\ IsBoth(run)
           /\ children' = both_body(children, run, start_index, end_index, NewId(children))
           /\ visited' = Append(visited, <<run, "both">>)
    /\ pending' = Tail(pending)
    /\ UNCHANGED <<pc, replace_start>>
    /\ Frame

\* lines 189-192: the run holds the start
ScanStart ==
    /\ Loop
    /\ \E run \in {Head(pending)} :
           /\ ~IsBoth(run) /\ IsStart(run)
           /\ children' = start_body(children, run, start_index)
           /\ visited' = Append(visited, <<run, "start">>)
    /\ replace_start' = TRUE
    /\ pending' = Tail(pending)
    /\ UNCHANGED pc
    /\ Frame

\* lines 193-198: the run holds the end; the loop stops
ScanEnd ==
    /\ Loop
    /\ \E run \in {Head(pending)} :
           /\ ~IsBoth(run) /\ ~IsStart(run) /\ IsEnd(run)
           /\ children' = end_body(children, run, end_index, NewId(children))
           /\ visited' = Append(visited, <<run, "end">>)
    /\ pending' = <<>>
    /\ UNCHANGED <<pc, replace_start>>
    /\ Frame

\* lines 199-201: a run inside the replaced span
ScanInside ==
    /\ Loop
    /\ \E run \in {Head(pending)} :
           /\ ~IsBoth(run) /\ ~IsStart(run) /\ ~IsEnd(run) /\ replace_start
           /\ children' = inside_body(children, run)
           /\ visited' = Append(visited, <<run, "inside">>)
    /\ pending' = Tail(pending)
    /\ UNCHANGED <<pc, replace_start>>
    /\ Frame

\* no branch of the loop body applies
ScanSkip ==
    /\ Loop
    /\ \E run \in {Head(pending)} :
           /\ ~IsBoth(run) /\ ~IsStart(run) /\ ~IsEnd(run) /\ ~replace_start
           /\ visited' = Append(visited, <<run, "skip">>)
    /\ pending' = Tail(pending)
    /\ UNCHANGED <<children, pc, replace_start>>
    /\ Frame

\* lines 203-204: the replacement goes into the insertion
Insert ==
    /\ pc = "scan" /\ pending = <<>>
    /\ children' = IF HasKind(children, "ins") THEN add_run(children, replacement_text)
                   ELSE children
    /\ pc' = "done"
    /\ UNCHANGED <<replace_start, pending, visited>>
    /\ Frame

Next == Find \/ ScanBoth \/ ScanStart \/ ScanEnd \/ ScanInside \/ ScanSkip \/ Insert

Spec == Init /\ [][Next]_vars

\* ---------------------------------------------- the locators called alone
QueryParagraphs == SeqsUpTo(TextsUpTo(MaxRunLen), MaxQueryRuns)

InitQuery ==
    /\ before \in QueryParagraphs
    /\ children = Build(before)
    /\ original_text \in Texts
    /\ replacement_text = NoText
    /\ pc = "query"
    /\ start_run = None /\ start_index = None
    /\ end_run = None /\ end_index = None
    /\ replace_start = FALSE
    /\ pending = <<>>
    /\ visited = <<>>
    /\ result = NoResult
    /\ loop_text = <<>>

Answered == /\ pc' = "answered"
            /\ UNCHANGED <<children, original_text, replacement_text, start_run, start_index,
                            end_run, end_index, replace_start, pending, before, visited,
                            loop_text>>

\* run.text_start_index(text) on one run of the paragraph
LocateStart ==
    /\ pc = "query"
    /\ \E run \in 1..Len(before) :
           result' = Answer("text_start_index", run,
                            text_start_index(TextOf(children, run), original_text))
    /\ Answered

\* run.text_end_index(text) on one run of the paragraph
LocateEnd ==
    /\ pc = "query"
    /\ \E run \in 1..Len(before) :
           result' = Answer("text_end_index", run,
                            text_end_index(TextOf(children, run), original_text))
    /\ Answered

\* paragraph.find_text_end_run(text), start_run and start_index left at None
FindEnd ==
    /\ pc = "query"
    /\ \E e \in {find_text_end_run(children, original_text, None, None)} :
           result' = Answer("find_text_end_run", e[1], e[2])
    /\ Answered

\* paragraph.text_starts_in_paragraph(text)
StartsIn ==
    /\ pc = "query"
    /\ result' = Answer("text_starts_in_paragraph", None,
                        text_starts_in_paragraph(children, original_text))
    /\ Answered

\* paragraph.find_text_start_run(text)
FindStart ==
    /\ pc = "query"
    /\ \E s \in {find_text_start_run(children, original_text)} :
           result' = Answer("find_text_start_run", s[1], s[2])
    /\ Answered

NextQuery == LocateStart \/ LocateEnd \/ FindEnd \/ StartsIn \/ FindStart

SpecQuery == InitQuery /\ [][NextQuery]_vars

\* ------------------------------------- the shortening loops, step by step
LoopAlphabet == {"a", ",", " "}

LoopTexts == SeqsUpTo(LoopAlphabet, MaxTextLen)

\* one run is enough: the locators look at one run, the helpers at the
\* paragraph text
LoopParagraphs == {<<t>> : t \in SeqsUpTo(LoopAlphabet, MaxRunLen)}

InitLoops ==
    /\ before \in LoopParagraphs
    /\ children = Build(before)
    /\ original_text \in LoopTexts
    /\ replacement_text = NoText
    /\ pc = "enter"
    /\ start_run = None /\ start_index = None
    /\ end_run = None /\ end_index = None
    /\ replace_start = FALSE
    /\ pending = <<>>
    /\ visited = <<>>
    /\ result = NoResult
    /\ loop_text = <<>>

LoopFrame == UNCHANGED <<children, original_text, replacement_text, start_run, start_index,
                         end_run, end_index, replace_start, pending, before, visited>>

\* the method returns value
Return(value) ==
    /\ result' = [result EXCEPT !.value = value]
    /\ pc' = "answered"
    /\ UNCHANGED loop_text

\* the first test of each method: the whole text is found, or the loop starts
Enter(op, run, whole_text, found) ==
    /\ IF Contains(whole_text, original_text)
       THEN /\ result' = Answer(op, run, found)
            /\ pc' = "answered"
            /\ UNCHANGED loop_text
       ELSE /\ result' = Answer(op, run, None)
            /\ pc' = "loop"
            /\ loop_text' = original_text
    /\ LoopFrame

InLoop(op) == pc = "loop" /\ result.op = op

\* the loop goes round with the text shortened
Again(shorter) ==
    /\ loop_text' = shorter
    /\ UNCHANGED <<pc, result>>

\* text[:-1]
drop_last_character(t) == SliceTo(t, -1)

\* text.split(' ') as Split, the text evaluated once
words[s \in Seq(STRING)] ==
    IF Contains(s, <<" ">>)
    THEN <<SliceTo(s, IndexOf(s, <<" ">>))>> \o words[SliceFrom(s, IndexOf(s, <<" ">>) + 1)]
    ELSE <<s>>

\* ' '.join(parts) as Join, the parts evaluated once
joined[parts \in Seq(Seq(STRING))] ==
    IF parts = <<>> THEN <<>>
    ELSE IF Len(parts) = 1 THEN parts[1]
    ELSE parts[1] \o <<" ">> \o joined[Tail(parts)]

\* the first word dropped, ", " put back after every word that ends with a comma
drop_first_word_keeping_commas(t) ==
    LET split_text == words[t]
    IN  IF Len(split_text[1]) >= 1 /\ EndsWith(split_text[1], <<",">>)
        THEN <<",", " ">> \o joined[Tail(split_text)]
        ELSE joined[Tail(split_text)]

\* the first word dropped, ", " put back after a longer word that ends with a comma
drop_first_word(t) ==
    LET split_text == words[t]
    IN  IF Len(split_text[1]) > 1 /\ EndsWith(split_text[1], <<",">>)
        THEN <<",", " ">> \o joined[Tail(split_text)]
        ELSE joined[Tail(split_text)]

\* " ".join(text.split(" ")[:len(text.split(" "))-1])
drop_last_word(t) == joined[SubSeq(words[t], 1, Len(words[t]) - 1)]

\* " ".join(text.split(" ")[1:])
drop_leading_word(t) == joined[Tail(words[t])]

EnterStartIndex ==
    /\ pc = "enter"
    /\ \E run \in 1..Len(before) :
        Enter("text_start_index", run, TextOf(children, run),
              IndexOf(TextOf(children, run), original_text))

StepStartIndex ==
    /\ InLoop("text_start_index")
    /\ LET run_text == TextOf(children, result.run)
           subtract_space == IF StartsWith(run_text, <<" ">>) THEN 1 ELSE 0
       IN  IF loop_text = <<>> THEN Return(None)
           ELSE IF EndsWith(Strip(run_text), loop_text)
                THEN Return(Len(Strip(run_text)) - Len(loop_text) + subtract_space)
                ELSE Again(drop_last_character(loop_text))
    /\ LoopFrame

EnterEndIndex ==
    /\ pc = "enter"
    /\ \E run \in 1..Len(before) :
        Enter("text_end_index", run, TextOf(children, run),
              IndexOf(TextOf(children, run), original_text) + Len(original_text))

StepEndIndex ==
    /\ InLoop("text_end_index")
    /\ LET run_text == TextOf(children, result.run)
       IN  IF loop_text = <<>> THEN Return(None)
           ELSE IF StartsWith(Strip(run_text), loop_text)
                THEN Return(IndexOf(run_text, loop_text) + Len(loop_text) - 1)
                ELSE Again(drop_first_word(loop_text))
    /\ LoopFrame

EnterStartsIn ==
    /\ pc = "enter"
    /\ Enter("text_starts_in_paragraph", None, text(children), TRUE)

StepStartsIn ==
    /\ InLoop("text_starts_in_paragraph")
    /\ IF loop_text = <<>> THEN Return(FALSE)
       ELSE IF EndsWith(text(children), loop_text) THEN Return(TRUE)
       ELSE Again(drop_last_word(loop_text))
    /\ LoopFrame

EnterEndsIn ==
    /\ pc = "enter"
    /\ Enter("text_ends_in_paragraph", None, text(children), TRUE)

StepEndsIn ==
    /\ InLoop("text_ends_in_paragraph")
    /\ IF loop_text = <<>> THEN Return(FALSE)
       ELSE IF StartsWith(text(children), loop_text) THEN Return(TRUE)
       ELSE Again(drop_leading_word(loop_text))
    /\ LoopFrame

NextLoops ==
    \/ EnterStartIndex \/ StepStartIndex
    \/ EnterEndIndex \/ StepEndIndex
    \/ EnterStartsIn \/ StepStartsIn
    \/ EnterEndsIn \/ StepEndsIn

\* a method that was called keeps running until it returns
SpecLoops == InitLoops /\ [][NextLoops]_vars /\ WF_vars(NextLoops)

\* ------------------------------------------------------------ properties
\* the text of the paragraph before the call
PreText == Concat(before)

\* the children read in order: a run gives its text, a w:ins the texts of its
\* runs, a w:del nothing
RECURSIVE Rendered(_)
Rendered(p) ==
    IF p = <<>> THEN <<>>
    ELSE (IF Head(p).kind = "r" THEN Head(p).text
          ELSE IF Head(p).kind = "ins" THEN Concat(Head(p).runs)
          ELSE <<>>) \o Rendered(Tail(p))

Count(p, k) == Len(SelectSeq(p, LAMBDA n : n.kind = k))

Done == pc = "done"

Neither == start_run = None /\ end_run = None

\* length of the runs before a run of the original paragraph
RECURSIVE LenBefore(_)
LenBefore(i) == IF i <= 1 THEN 0 ELSE LenBefore(i - 1) + Len(before[i - 1])

\* C1: when the paragraph text contains the non-empty original_text and
\* replacement_text is not None, the rendered paragraph after the call is the
\* text before the call with an occurrence of original_text replaced by
\* replacement_text.
C1_TextReplaced ==
    (Done /\ replacement_text # NoText /\ original_text # <<>>
          /\ Contains(PreText, original_text))
    => \E i \in 0..(Len(PreText) - Len(original_text)) :
          /\ Slice(PreText, i, i + Len(original_text)) = original_text
          /\ Rendered(children) = SliceTo(PreText, i) \o replacement_text
                                  \o SliceFrom(PreText, i + Len(original_text))

C3_NeverRaises == pc # "raised"

\* C4: when a w:ins and a w:del are both created, the w:ins is the child
\* right before the w:del; right after they are built they follow the start
\* run directly when it was located, and precede the end run directly when
\* only the end run was located.
C4_InsBeforeDel ==
    (HasKind(children, "ins") /\ HasKind(children, "del"))
    => /\ PosOfKind(children, "ins") + 1 = PosOfKind(children, "del")
       /\ (pc = "scan" /\ visited = <<>> /\ start_run # None)
          => PosOfRun(children, start_run) + 1 = PosOfKind(children, "ins")
       /\ (pc = "scan" /\ visited = <<>> /\ start_run = None /\ end_run # None)
          => PosOfKind(children, "del") + 1 = PosOfRun(children, end_run)

C4_Witness ==
    /\ pc = "scan" /\ visited = <<>>
    /\ start_run = None /\ end_run # None
    /\ HasKind(children, "ins") /\ HasKind(children, "del")
    /\ Len(before) >= 2 /\ end_run >= 2

\* C5 as stated: no w:ins for a None replacement; for any other replacement
\* and a located start run, one w:ins holding one run with the replacement.
C5_InsWheneverStart ==
    Done => /\ replacement_text = NoText => Count(children, "ins") = 0
            /\ (replacement_text # NoText /\ start_run # None)
               => /\ Count(children, "ins") = 1
                  /\ children[PosOfKind(children, "ins")].runs = <<replacement_text>>

\* C5 amended: no w:ins for a None replacement; for any other replacement, a
\* located start run and a located end run, one w:ins holding one run with
\* the replacement; with a located start run and no end run, no w:ins.
C5_InsOnlyWithEnd ==
    Done => /\ replacement_text = NoText => Count(children, "ins") = 0
            /\ (replacement_text # NoText /\ start_run # None /\ end_run # None)
               => /\ Count(children, "ins") = 1
                  /\ children[PosOfKind(children, "ins")].runs = <<replacement_text>>
            /\ (start_run # None /\ end_run = None) => Count(children, "ins") = 0

C5_Witness ==
    /\ Done /\ replacement_text # NoText /\ replacement_text # <<>>
    /\ start_run # None /\ end_run # None /\ start_run # end_run

\* C6: for a non-empty original_text contained in the paragraph text,
\* find_text_start_run returns a run and an offset that add up to the
\* position of the first occurrence in the paragraph text.
C6_StartAtIndex ==
    (pc \in {"scan", "raised"} /\ original_text # <<>> /\ Contains(PreText, original_text))
    => /\ start_run # None
       /\ LenBefore(start_run) + start_index = IndexOf(PreText, original_text)

\* C7: when a start run and an end run are located, the texts held by the
\* w:del after the call, in order, make up original_text.
C7_DeletedIsOriginal ==
    (Done /\ start_run # None /\ end_run # None)
    => Concat(children[PosOfKind(children, "del")].runs) = original_text

\* C8: the loop applies the start-run step only to the run find_text_start_run
\* returned and the end-run step only to the run find_text_end_run returned.
C8_ByIdentity ==
    \A i \in 1..Len(visited) :
        /\ visited[i][2] \in {"start", "both"} => visited[i][1] = start_run
        /\ visited[i][2] \in {"end", "both"} => visited[i][1] = end_run

\* C9: a returned end offset is the position, in the returned run, of the
\* last character of the (non-empty) text.
C9_EndInclusive ==
    (result.op \in {"text_end_index", "find_text_end_run"}
        /\ result.value # None /\ original_text # <<>>)
    => /\ result.value \in 0..(Len(before[result.run]) - 1)
       /\ before[result.run][result.value + 1] = original_text[Len(original_text)]

\* the text without its last word: ' '.join(text.split(' ')[:-1])
DropLastWord(t) == Join(SubSeq(Split(t), 1, Len(Split(t)) - 1))

LeadingSpace(rt) == IF StartsWith(rt, <<" ">>) THEN 1 ELSE 0

\* C10 as stated: drop last words until the rest is a suffix of the stripped
\* run text; the offset in the stripped text, minus 1 after a leading space
RECURSIVE WordShortened(_, _)
WordShortened(rt, t) ==
    IF DropLastWord(t) = <<>> THEN None
    ELSE IF EndsWith(Strip(rt), DropLastWord(t))
         THEN Len(Strip(rt)) - Len(DropLastWord(t)) - LeadingSpace(rt)
         ELSE WordShortened(rt, DropLastWord(t))

SuffixPrefixes(rt, t) == {k \in 1..Len(t) : EndsWith(Strip(rt), SubSeq(t, 1, k))}

AllRunsHadText == \A i \in 1..Len(before) : before[i] # <<>>

\* C11: after the call with a non-empty original_text on a paragraph whose
\* runs all had text, no direct run of the paragraph is left with empty text:
\* a run consumed by the match is gone and no run is created for an empty
\* remainder.
C11_NoEmptyRun ==
    (Done /\ AllRunsHadText /\ original_text # <<>>)
    => \A i \in 1..Len(children) :
          IsRun(children[i]) => children[i].text # <<>>

\* the original characters of the children read in order: a run gives its
\* text, a w:del the texts of its deleted runs, a w:ins nothing
RECURSIVE Original(_)
Original(p) ==
    IF p = <<>> THEN <<>>
    ELSE (IF Head(p).kind = "r" THEN Head(p).text
          ELSE IF Head(p).kind = "del" THEN Concat(Head(p).runs)
          ELSE <<>>) \o Original(Tail(p))

\* C12: after the call, the direct runs and the deleted runs of the paragraph,
\* read in document order without the w:ins, give the paragraph text before
\* the call.
C12_Conserved == Done => Original(children) = PreText

\* C13: for a non-empty text, when text_starts_in_paragraph answers True,
\* find_text_start_run on the same paragraph and text returns a run.
C13_GateAgrees ==
    (result.op = "text_starts_in_paragraph" /\ result.value = TRUE
        /\ original_text # <<>>)
    => find_text_start_run(children, original_text)[1] # None

\* a method has returned the absent result: None from the two locators, False
\* from the two helpers
Absent ==
    IF result.op \in {"text_start_index", "text_end_index"}
    THEN result.value = None ELSE result.value = FALSE

\* C14: each of the four shortening loops returns, and a loop that ran until
\* its text was empty returns the absent result.
C14_LoopsTerminate ==
    /\ <>(pc = "answered")
    /\ []((pc = "answered" /\ result.op # "none"
              /\ ~Contains(IF result.run = None THEN text(children)
                           ELSE TextOf(children, result.run), original_text)
              /\ loop_text = <<>>) => Absent)

\* text_end_index has returned None for a text whose first word is longer
\* than one character and ends with a comma, so that ", " was put back
C14_Witness ==
    /\ pc = "answered"
    /\ result.op = "text_end_index"
    /\ result.value = None
    /\ loop_text = <<>>
    /\ Len(Split(original_text)[1]) > 1
    /\ EndsWith(Split(original_text)[1], <<",">>)

====
